---- MODULE Spec2Model ----
(***************************************************************************)
(* Shadowrun 5 combat tracker (SR5Combat.ts): the round / initiative pass  *)
(* / turn state machine of one encounter, the RERIC turn comparator and    *)
(* the socket relay that lets a player ask the GM for a pass or a round    *)
(* advance.                                                                *)
(*                                                                         *)
(* One asynchronous operation runs at a time.  Every awaited write of the  *)
(* code (update, updateCombatant, setFlag, unsetFlag) is one step, so the  *)
(* states between two awaits of a handler are states of the model.  The    *)
(* synchronous prefix of an operation (its reads, its decision and the     *)
(* first write it issues) is the step that starts it.                      *)
(***************************************************************************)
EXTENDS Integers, Sequences, FiniteSets, Bags, TLC

\* ------------------------------------------------------------------ bounds
MaxRoll == 2            \* an initiative roll yields 1..MaxRoll
MaxRound == 2           \* rounds are not advanced beyond MaxRound
MaxPass == 3            \* passes are not advanced beyond MaxPass
MaxInFlight == 2        \* relay messages in flight at once
MaxScore == 2           \* adjustInitiative is not applied above MaxScore
MaxAttr == 2            \* edge, reaction, intuition range over 1..MaxAttr (comparator runs)
MaxCmpScore == 2        \* numeric scores 0..MaxCmpScore (comparator runs)
MaxInstances == 2       \* SR5Combat instances constructed on one client (relay runs)
MaxForeign == 1         \* messages of other senders in flight at once (relay runs)
MaxEntries == 3         \* length of the lists the position getters scan (position runs)
MaxScanScore == 1       \* scores -1..MaxScanScore in those lists (position runs)

\* --------------------------------------------------------------- constants
\* SR.combat.INITIAL_INI_PASS, SR.combat.INITIAL_INI_ROUND (module constants.ts)
INITIAL_INI_PASS == 1
INITIAL_INI_ROUND == 1
\* -SR.combat.INI_RESULT_MOD_AFTER_INI_PASS, the fixed step of the decay, in
\* units of the model's scores
DecayStep == 1
MaxDebt == 1            \* adjustInitiative is not applied below -MaxDebt

Ids == {"c1", "c2"}
\* this.combatants, the document's array of combatants, in its order
Combatants == <<"c1", "c2">>
\* combatants without a player owner (what rollNPC rolls)
NPCs == {"c2"}
Users == {"gm", "p1"}
ThisId == "combat"
\* game.user.isGM
isGM(u) == u = "gm"
\* the adjustments offered for adjustInitiative
Deltas == {-1, 1}

\* ------------------------------------------------------------------ values
\* combatant.initiative is null (not rolled), a number, or not a number
Null == [k |-> "null", v |-> 0]
NaN == [k |-> "nan", v |-> 0]
Num(n) == [k |-> "num", v |-> n]
\* Number(x): Number(null) is 0
Number(x) == IF x.k = "null" THEN Num(0) ELSE x
isNaN(x) == x.k = "nan"
\* x > 0 as JavaScript evaluates it on null, NaN or a number
GT0(x) == x.k = "num" /\ x.v > 0
Max(a, b) == IF a >= b THEN a ELSE b

VARIABLES
    round,          \* Combat.round, 0 before the combat starts
    passFlag,       \* the flag FLAGS.CombatInitiativePass; NoFlag when unset
    turn,           \* Combat.turn, the 0-based index into turns
    initiative,     \* combatant id -> initiative
    defeated,       \* combatant id -> defeated flag
    actors,         \* combatant id -> [edge, reaction, intuition]
    turns,          \* Combat.turns, the sorted turn sequence, rebuilt on every write
    skipDefeated,   \* this.settings.skipDefeated
    onlyNPC,        \* the setting FLAGS.OnlyAutoRollNPCInCombat
    socket,         \* bag of relay messages in flight
    op,             \* the running (or last finished) operation
    cmp,            \* one run of the comparator on a pair (comparator runs only)
    instances,      \* SR5Combat instances constructed on a client, each with a listener
    trace,          \* what the last step logged with console.error, and the
                    \* handler the socket listener called in it
    scan            \* one run of the position getters on a list (position runs only)

vars == <<round, passFlag, turn, initiative, defeated, actors, turns,
          skipDefeated, onlyNPC, socket, op, cmp, instances, trace, scan>>
store == <<round, passFlag, turn, initiative>>

\* getFlag() of an unset flag is undefined; undefined and 0 are both falsy in ||
NoFlag == 0

\* -------------------------------------------------------------- ScoreRules
\* CombatRules.reduceIniResultAfterPass: the decay of one pass, clamped at 0
reduceIniResultAfterPass(score) == Max(score - DecayStep, 0)

\* CombatRules.iniOrderCanDoAnotherPass: some score is still positive after
\* the decay of one more pass; FALSE on no scores
iniOrderCanDoAnotherPass(scores) ==
    \E i \in DOMAIN scores : reduceIniResultAfterPass(scores[i]) > 0

\* CombatRules.reduceIniOnLateSpawn: the decay of the passes already elapsed
reduceIniOnLateSpawn(score, pass) ==
    Max(score - Max(pass - 1, 0) * DecayStep, 0)

\* ---------------------------------------------------------- TurnComparator
\* genData(actor) with the coin of new Roll('1d2')
genData(c, coin) == <<c.edge, c.reaction, c.intuition, coin>>

RECURSIVE firstDiff(_, _, _)
\* the loop of sortByRERIC over leftData / rightData from index (1-based)
firstDiff(leftData, rightData, index) ==
    IF index > Len(leftData) THEN 0
    ELSE LET diff == rightData[index] - leftData[index]
         IN IF diff # 0 THEN diff ELSE firstDiff(leftData, rightData, index + 1)

\* SR5Combat.sortByRERIC(left, right); coinL, coinR are the two 1d2 rolls
sortByRERIC(left, right, coinL, coinR) ==
    LET leftInit == Number(left.initiative)
        rightInit == Number(right.initiative)
    IN IF isNaN(leftInit) THEN 1
       ELSE IF isNaN(rightInit) THEN -1
       ELSE IF leftInit.v > rightInit.v THEN -1
       ELSE IF leftInit.v < rightInit.v THEN 1
       ELSE firstDiff(genData(left, coinL), genData(right, coinR), 1)

Coins == 1..2

\* a combatant as the comparator sees it
Combatant(c, ini, act) ==
    [initiative |-> ini[c], edge |-> act[c].edge,
     reaction |-> act[c].reaction, intuition |-> act[c].intuition]

Perms == {s \in [1..Cardinality(Ids) -> Ids] : \A i, j \in DOMAIN s : i # j => s[i] # s[j]}

\* SR5Combat.setupTurns: the orders turns.sort(sortByRERIC) can produce, one
\* for every outcome of the coins: no pair is placed against a comparison
setupTurns(ini, act) ==
    {s \in Perms : \A i, j \in DOMAIN s : i < j =>
        \E cl, cr \in Coins :
            sortByRERIC(Combatant(s[i], ini, act), Combatant(s[j], ini, act), cl, cr) <= 0}

\* ------------------------------------------------------------- positions
\* get initiativePass
initiativePass == IF passFlag # NoFlag THEN passFlag ELSE INITIAL_INI_PASS

\* a combatant as the position getters read it
Entry(c) == [defeated |-> defeated[c], initiative |-> initiative[c]]
\* this.turns and this.combatants as lists of such entries
turnEntries == [i \in 1..Len(turns) |-> Entry(turns[i])]
combatantEntries == [i \in 1..Len(Combatants) |-> Entry(Combatants[i])]

\* the loop of nextUndefeatedTurnPosition without the look at the defeated flag
undefeatedInAnyFlag(entries, t) ==
    {n \in 0..(Len(entries) - 1) : n > t /\ GT0(entries[n + 1].initiative)}

\* the positions of entries the loop of nextUndefeatedTurnPosition returns at
undefeatedIn(entries, t) ==
    {n \in 0..(Len(entries) - 1) :
        /\ n > t
        /\ ~entries[n + 1].defeated
        /\ GT0(entries[n + 1].initiative)}

\* the positions nextUndefeatedTurnPosition may return before the end
UndefeatedAfter == undefeatedIn(turnEntries, turn)

Min(S) == CHOOSE n \in S : \A m \in S : n <= m

\* the getter starting over at the top when no such position is left
undefeatedTurnPositionWrap(entries, t) ==
    IF undefeatedIn(entries, t) # {} THEN Min(undefeatedIn(entries, t)) ELSE 0

\* the getter on the list entries with the turn t: the first such position
undefeatedTurnPosition(entries, t) ==
    IF undefeatedIn(entries, t) # {} THEN Min(undefeatedIn(entries, t)) ELSE Len(entries)

\* get nextUndefeatedTurnPosition
nextUndefeatedTurnPosition == undefeatedTurnPosition(turnEntries, turn)

\* The loop of nextViableTurnPosition, "for (let n = this.turn + 1; n++; n <
\* length)": the condition is n++, so the body first sees turn + 2 and the loop
\* ends only by a return or by reading .initiative of undefined (a TypeError).
RECURSIVE viableFrom(_, _)
viableFrom(entries, n) ==
    IF n >= Len(entries) THEN [threw |-> TRUE, n |-> 0]
    ELSE IF GT0(entries[n + 1].initiative) THEN [threw |-> FALSE, n |-> n]
    ELSE viableFrom(entries, n + 1)

\* the getter on the list entries with the turn t
viableTurnPosition(entries, t) ==
    IF t + 1 = 0 THEN [threw |-> FALSE, n |-> 0] ELSE viableFrom(entries, t + 2)

\* get nextViableTurnPosition
nextViableTurnPosition == viableTurnPosition(combatantEntries, turn)

\* doIniPass without the look at the scores
doIniPassAnyScore(nextTurn) == nextTurn >= Len(turns)

\* doIniPass(nextTurn)
doIniPass(nextTurn) ==
    IF nextTurn < Len(turns) THEN FALSE
    ELSE iniOrderCanDoAnotherPass([c \in Ids |-> Number(initiative[c]).v])

\* ------------------------------------------------------------- operations
\* no operation is running
Rest ==
    [name |-> "none", pc |-> "done", by |-> "gm", branch |-> "-", pass |-> 0,
     ret |-> "-", ids |-> {}, caller |-> "-", stale |-> FALSE, rolled |-> FALSE]

\* an operation suspended at an await
At(name, by, branch, stale, rolled, pc, pass, ret, ids, caller) ==
    [name |-> name, pc |-> pc, by |-> by, branch |-> branch, pass |-> pass,
     ret |-> ret, ids |-> ids, caller |-> caller, stale |-> stale, rolled |-> rolled]

\* one committed write of the persisted document; turns is rebuilt from it
Write(r, p, t, ini) ==
    /\ round' = r
    /\ passFlag' = p
    /\ turn' = t
    /\ initiative' = ini
    /\ turns' \in setupTurns(ini, actors)

NoWrite == UNCHANGED <<round, passFlag, turn, initiative, turns>>
\* nothing logged, no handler called by the listener
Quiet == [error |-> "-", handler |-> "-"]
Logged(e) == [error |-> e, handler |-> "-"]
Called(h) == [error |-> "-", handler |-> h]
Fixed == UNCHANGED <<defeated, actors, skipDefeated, onlyNPC, cmp, instances, scan>>
Frame == Fixed /\ trace' = Quiet

\* a relay message {type, data} and its sender: hasId is
\* data.hasOwnProperty('id'), idType is typeof data.id, id is data.id.  sentFor
\* and heard are no part of the payload: sentFor records the pass a DoInitPass
\* message was sent in, or the round a DoNextRound message was sent for; heard
\* records the listeners the channel has handed the message to
Payload(type, hasId, idType, id, from, sentFor) ==
    [type |-> type, hasId |-> hasId, idType |-> idType, id |-> id,
     from |-> from, sentFor |-> sentFor, heard |-> {}]

\* the message {type, data: {id: this.id}} the combat sends
Message(type, from, sentFor) == Payload(type, TRUE, "string", ThisId, from, sentFor)

\* game.socket.emit
emit(m) == socket' = socket (+) SetToBag({m})
CanEmit == BagCardinality(socket) < MaxInFlight

\* _createDoIniPassSocketMessage
createDoIniPassSocketMessage(u) == emit(Message("DoInitPass", u, initiativePass))

\* _createDoNextRoundSocketMessage
createDoNextRoundSocketMessage(u) == emit(Message("DoNextRound", u, round))

\* the scores of handleIniPass without the decay
undecayed == [c \in Ids |-> Number(initiative[c])]

\* the scores handleIniPass writes
decayed == [c \in Ids |-> Num(reduceIniResultAfterPass(Number(initiative[c]).v))]

\* handleIniPass(combatId) up to its first await: the decayed scores are
\* written, the new pass number is kept for setInitiativePass
handleIniPass(u, id, name, branch, stale) ==
    IF id # ThisId
    THEN NoWrite /\ op' = Rest
    ELSE /\ initiativePass < MaxPass
         /\ Write(round, passFlag, turn, decayed)
         /\ op' = At(name, u, branch, stale, FALSE, "unsetFlag",
                     initiativePass + 1, "hip_turn", {}, "-")

\* setInitiativePass, first await: unsetFlag
UnsetFlag ==
    /\ op.pc = "unsetFlag"
    /\ Write(round, NoFlag, turn, initiative)
    /\ op' = [op EXCEPT !.pc = "setFlag"]
    /\ UNCHANGED socket /\ Frame

\* setInitiativePass, second await: setFlag(pass); control returns to the caller
SetFlag ==
    /\ op.pc = "setFlag"
    /\ Write(round, op.pass, turn, initiative)
    /\ op' = [op EXCEPT !.pc = op.ret, !.pass = 0, !.ret = "-"]
    /\ UNCHANGED socket /\ Frame

\* handleIniPass, last await: update({turn: 0})
HandleIniPassTurn ==
    /\ op.pc = "hip_turn"
    /\ Write(round, passFlag, 0, initiative)
    /\ op' = Rest
    /\ UNCHANGED socket /\ Frame

\* startCombat() up to its first await (unsetFlag of setInitiativePass)
startCombat(u, name, branch) ==
    /\ Write(round, NoFlag, turn, initiative)
    /\ op' = At(name, u, branch, FALSE, FALSE, "setFlag", INITIAL_INI_PASS, "sc_update", {}, "-")

\* startCombat(): return await this.update({round, turn}); nothing runs after it
StartCombatUpdate ==
    /\ op.pc = "sc_update"
    /\ Write(INITIAL_INI_ROUND, passFlag, 0, initiative)
    /\ op' = Rest
    /\ UNCHANGED socket /\ Frame

\* the turns the host's Combat.nextRound may start the round at: the top, or
\* the first combatant that is not defeated when defeated ones are skipped
hostFirstTurns ==
    LET alive == {n \in 0..(Len(turns) - 1) : ~defeated[turns[n + 1]]}
    IN {0} \cup (IF skipDefeated /\ alive # {} THEN {Min(alive)} ELSE {})

\* nextRound() up to its first await: super.nextRound() commits round + 1
nextRound(u, name, branch) ==
    /\ round < MaxRound
    /\ isGM(u) \/ CanEmit
    /\ \E t \in hostFirstTurns : Write(round + 1, passFlag, t, initiative)
    /\ op' = At(name, u, branch, FALSE, FALSE, "unsetFlag", INITIAL_INI_PASS, "nr_gate", {}, "-")

\* handleNextRound(combatId) up to its first await: resetAll() clears the scores
handleNextRound(u, id, name, branch, stale) ==
    IF id # ThisId
    THEN NoWrite /\ op' = Rest
    ELSE /\ Write(round, passFlag, turn, [c \in Ids |-> Null])
         /\ op' = At(name, u, branch, stale, FALSE, "hnr_resetTurn", 0, "-", {}, "-")

\* nextRound() after setInitiativePass: the privilege gate
NextRoundGate ==
    /\ op.pc = "nr_gate"
    /\ IF ~isGM(op.by)
       THEN /\ createDoNextRoundSocketMessage(op.by)
            /\ NoWrite
            /\ op' = Rest
       ELSE /\ handleNextRound(op.by, ThisId, op.name, op.branch, op.stale)
            /\ UNCHANGED socket
    /\ Frame

\* resetAll(), second await: the host's update({turn: 0})
ResetAllTurn ==
    /\ op.pc = "hnr_resetTurn"
    /\ Write(round, passFlag, 0, initiative)
    /\ op' = [op EXCEPT !.pc = "hnr_roll"]
    /\ UNCHANGED socket /\ Frame

\* the host's rollInitiative(ids) without a roll
rolledScoresNone(ids, r) == initiative

\* the scores after the host's rollInitiative(ids) with the rolls r
rolledScores(ids, r) == [c \in Ids |-> IF c \in ids THEN Num(r[c]) ELSE initiative[c]]

\* what the host's rollAll / rollNPC pass to rollInitiative
unrolled(pool) == {c \in pool : Number(initiative[c]).v = 0}

\* handleNextRound: rollNPC() or rollAll(), up to the write of the rolls
HandleNextRoundRoll ==
    /\ op.pc = "hnr_roll"
    /\ LET ids == IF onlyNPC THEN unrolled(NPCs) ELSE unrolled(Ids)
       IN /\ \E r \in [ids -> 1..MaxRoll] : Write(round, passFlag, turn, rolledScores(ids, r))
          /\ op' = [op EXCEPT !.pc = "ri_late", !.ids = ids, !.rolled = TRUE,
                              !.caller = IF onlyNPC THEN "rollNPC" ELSE "rollAll"]
    /\ UNCHANGED socket /\ Frame

\* where rollInitiative returns to
return(caller) ==
    CASE caller = "rollAll" -> "ra_top"
      [] caller = "rollNPC" -> "hnr_turn"
      [] OTHER -> "done"

Returned(o) ==
    IF return(o.caller) = "done"
    THEN Rest
    ELSE [o EXCEPT !.pc = return(o.caller), !.ids = {}, !.caller = "-"]

\* updateNewCombatants(ids) without the reduction
lateSpawnedNoDecay(ids) == initiative

\* the scores updateNewCombatants(ids) writes
lateSpawned(ids) ==
    [c \in Ids |-> IF c \in ids
                   THEN Num(reduceIniOnLateSpawn(Number(initiative[c]).v, initiativePass))
                   ELSE initiative[c]]

\* rollInitiative after super.rollInitiative: the late-spawn reduction when the
\* pass is beyond the initial pass, else the reset of the turn to the top
RollInitiativeLate ==
    /\ op.pc = "ri_late"
    /\ IF initiativePass > INITIAL_INI_PASS
       THEN /\ Write(round, passFlag, turn, lateSpawned(op.ids))
            /\ op' = [op EXCEPT !.pc = "ri_top"]
       ELSE /\ IF initiativePass = INITIAL_INI_PASS
               THEN Write(round, passFlag, 0, initiative)
               ELSE NoWrite
            /\ op' = Returned(op)
    /\ UNCHANGED socket /\ Frame

\* rollInitiative after updateNewCombatants, with the turn reset whatever the pass
RollInitiativeTopAlways ==
    /\ op.pc = "ri_top"
    /\ Write(round, passFlag, 0, initiative)
    /\ op' = Returned(op)
    /\ UNCHANGED socket /\ Frame

\* rollInitiative after updateNewCombatants
RollInitiativeTop ==
    /\ op.pc = "ri_top"
    /\ IF initiativePass = INITIAL_INI_PASS
       THEN Write(round, passFlag, 0, initiative)
       ELSE NoWrite
    /\ op' = Returned(op)
    /\ UNCHANGED socket /\ Frame

\* rollAll() after super.rollAll(): always start at the top
RollAllTop ==
    /\ op.pc = "ra_top"
    /\ IF turn # 0 THEN Write(round, passFlag, 0, initiative) ELSE NoWrite
    /\ op' = [op EXCEPT !.pc = "hnr_turn"]
    /\ UNCHANGED socket /\ Frame

\* handleNextRound, last await: update({turn: 0})
HandleNextRoundTurn ==
    /\ op.pc = "hnr_turn"
    /\ Write(round, passFlag, 0, initiative)
    /\ op' = Rest
    /\ UNCHANGED socket /\ Frame

\* ------------------------------------------------------------- public API
\* the position nextTurn() computes, or the TypeError of the non-skip loop
nextTurnPosition ==
    IF skipDefeated
    THEN [threw |-> FALSE, n |-> nextUndefeatedTurnPosition]
    ELSE nextViableTurnPosition

\* nextTurn() without the privilege test before the pass advance
nextTurnBranchNoGate(u) ==
    LET pos == nextTurnPosition
    IN IF pos.threw THEN "threw"
       ELSE IF round = 0 /\ initiativePass = 0 THEN "start"
       ELSE IF pos.n < Len(turns) THEN "step"
       ELSE IF doIniPass(pos.n) THEN "handlePass"
       ELSE "nextRound"

\* the path nextTurn() takes for the user u
nextTurnBranch(u) ==
    LET pos == nextTurnPosition
    IN IF pos.threw THEN "threw"
       ELSE IF round = 0 /\ initiativePass = 0 THEN "start"
       ELSE IF pos.n < Len(turns) THEN "step"
       ELSE IF ~isGM(u) /\ doIniPass(pos.n) THEN "emitPass"
       ELSE IF isGM(u) /\ doIniPass(pos.n) THEN "handlePass"
       ELSE "nextRound"

\* nextTurn() up to its first await
NextTurn(u) ==
    /\ op.pc = "done"
    /\ LET branch == nextTurnBranch(u)
       IN CASE branch = "threw" ->
                 NoWrite /\ UNCHANGED socket /\ op' = Rest
            [] branch = "start" ->
                 startCombat(u, "nextTurn", branch) /\ UNCHANGED socket
            [] branch = "step" ->
                 /\ Write(round, passFlag, nextTurnPosition.n, initiative)
                 /\ op' = Rest
                 /\ UNCHANGED socket
            [] branch = "emitPass" ->
                 /\ CanEmit
                 /\ createDoIniPassSocketMessage(u)
                 /\ NoWrite
                 /\ op' = Rest
            [] branch = "handlePass" ->
                 handleIniPass(u, ThisId, "nextTurn", branch, FALSE) /\ UNCHANGED socket
            [] OTHER ->
                 nextRound(u, "nextTurn", branch) /\ UNCHANGED socket
    /\ Frame

\* startCombat(), offered by the tracker while the combat is not started
StartCombat(u) ==
    /\ op.pc = "done"
    /\ round = 0
    /\ startCombat(u, "startCombat", "-")
    /\ UNCHANGED socket /\ Frame

\* nextRound() called directly
NextRound(u) ==
    /\ op.pc = "done"
    /\ nextRound(u, "nextRound", "-")
    /\ UNCHANGED socket /\ Frame

\* rollInitiative(ids, options) up to its first await: super.rollInitiative
RollInitiative(u, ids) ==
    /\ op.pc = "done"
    /\ \E r \in [ids -> 1..MaxRoll] : Write(round, passFlag, turn, rolledScores(ids, r))
    /\ op' = At("rollInitiative", u, "-", FALSE, TRUE, "ri_late", 0, "-", ids, "api")
    /\ UNCHANGED socket /\ Frame

\* adjustInitiative with the adjustment added to every score
adjustInitiativeAll(u, who, adjustment) ==
    /\ who \in Ids
    /\ Number(initiative[who]).v + adjustment \in (0 - MaxDebt)..MaxScore
    /\ Write(round, passFlag, turn,
             [c \in Ids |-> Num(Number(initiative[c]).v + adjustment)])
    /\ op' = Rest
    /\ trace' = Quiet

\* adjustInitiative(combatant, adjustment); who is an id, known or not
adjustInitiative(u, who, adjustment) ==
    IF who \notin Ids
    THEN NoWrite /\ op' = Rest /\ trace' = Logged("combatant")
    ELSE /\ Number(initiative[who]).v + adjustment \in (0 - MaxDebt)..MaxScore
         /\ Write(round, passFlag, turn,
                  [initiative EXCEPT ![who] = Num(Number(initiative[who]).v + adjustment)])
         /\ op' = Rest
         /\ trace' = Quiet

AdjustInitiative(u, who, adjustment) ==
    /\ op.pc = "done"
    /\ adjustInitiative(u, who, adjustment)
    /\ UNCHANGED socket /\ Fixed

\* ------------------------------------------------------------ socket relay
\* a pass advance is due: the turn sequence is exhausted and another pass can
\* be done (the conditions nextTurn() tests before it asks for one)
passDue ==
    /\ ~nextTurnPosition.threw
    /\ nextTurnPosition.n >= Len(turns)
    /\ doIniPass(nextTurnPosition.n)

\* the request no longer matches the state: the round asked for is not the
\* current one, or the pass it was sent in is over
isStale(m) ==
    IF m.type = "DoNextRound" THEN m.sentFor # round ELSE m.sentFor # initiativePass

\* the listener of _registerSocketListeners on the client of user u
listener(message, u) ==
    CASE message.type = "DoNextRound" ->
            IF ~message.hasId /\ message.idType # "string"
            THEN NoWrite /\ UNCHANGED op /\ trace' = Logged("payload")
            ELSE /\ handleNextRound(u, message.id, "socket", message.type, isStale(message))
                 /\ trace' = Called("handleNextRound")
      [] message.type = "DoInitPass" ->
            IF ~message.hasId /\ message.idType # "string"
            THEN NoWrite /\ UNCHANGED op /\ trace' = Logged("payload")
            ELSE /\ handleIniPass(u, message.id, "socket", message.type, isStale(message))
                 /\ trace' = Called("handleIniPass")
      [] OTHER -> NoWrite /\ UNCHANGED op /\ trace' = Quiet

\* the listeners a message is handed to: one for every SR5Combat instance on
\* every client but the sender's
Audience(m) == (Users \ {m.from}) \X (1..instances)

\* the channel hands a message to the listener of instance k on the client of u
Deliver(m, u, k) ==
    /\ op.pc = "done"
    /\ BagIn(m, socket)
    /\ <<u, k>> \in Audience(m) \ m.heard
    /\ LET heard == m.heard \cup {<<u, k>>}
       IN socket' = (socket (-) SetToBag({m}))
                       (+) (IF heard = Audience(m) THEN EmptyBag
                            ELSE SetToBag({[m EXCEPT !.heard = heard]}))
    /\ listener(m, u)
    /\ Fixed

\* the channel loses a message
Drop(m) ==
    /\ BagIn(m, socket)
    /\ socket' = socket (-) SetToBag({m})
    /\ NoWrite /\ UNCHANGED op /\ Frame

\* the defeated flag of a combatant is toggled in the tracker
ToggleDefeated(c) ==
    /\ op.pc = "done"
    /\ defeated' = [defeated EXCEPT ![c] = ~defeated[c]]
    /\ turns' \in setupTurns(initiative, actors)
    /\ trace' = Quiet
    /\ UNCHANGED <<round, passFlag, turn, initiative, actors, skipDefeated, onlyNPC,
                   socket, op, cmp, instances, scan>>

\* ----------------------------------------------------------- specification
Attr(e) == [edge |-> e, reaction |-> 1, intuition |-> 1]
Tied == [c \in Ids |-> Attr(1)]
Ranked == [c \in Ids |-> IF c = "c2" THEN Attr(2) ELSE Attr(1)]
\* the encounters explored: the settings and the actors' attributes
Setups ==
    {[skipDefeated |-> TRUE, onlyNPC |-> FALSE, actors |-> Tied],
     [skipDefeated |-> TRUE, onlyNPC |-> TRUE, actors |-> Ranked],
     [skipDefeated |-> FALSE, onlyNPC |-> FALSE, actors |-> Ranked]}

\* no list scanned
ScanIdle == [entries |-> <<>>, turn |-> 0, undefeated |-> 0,
             viable |-> [threw |-> FALSE, n |-> 0], done |-> FALSE]

CmpIdle == [left |-> Combatant("c1", [c \in Ids |-> Null], [c \in Ids |-> Attr(1)]),
            right |-> Combatant("c1", [c \in Ids |-> Null], [c \in Ids |-> Attr(1)]),
            out |-> 0, back |-> 0, done |-> FALSE]

Init ==
    /\ round = 0
    /\ passFlag = NoFlag
    /\ turn = 0
    /\ initiative = [c \in Ids |-> Null]
    /\ defeated = [c \in Ids |-> FALSE]
    /\ \E s \in Setups :
          /\ actors = s.actors
          /\ skipDefeated = s.skipDefeated
          /\ onlyNPC = s.onlyNPC
    /\ turns \in setupTurns(initiative, actors)
    /\ socket = EmptyBag
    /\ op = Rest
    /\ cmp = CmpIdle
    /\ instances = 1
    /\ trace = Quiet
    /\ scan = ScanIdle

Next ==
    \/ \E u \in Users : NextTurn(u)
    \/ \E u \in Users : StartCombat(u)
    \/ \E u \in Users : NextRound(u)
    \/ \E u \in Users : \E ids \in (SUBSET Ids) \ {{}} : RollInitiative(u, ids)
    \/ \E u \in Users : \E who \in Ids \cup {"nobody"} : \E d \in Deltas :
          AdjustInitiative(u, who, d)
    \/ \E m \in BagToSet(socket) : \E u \in Users : \E k \in 1..instances :
          Deliver(m, u, k)
    \/ \E m \in BagToSet(socket) : Drop(m)
    \/ \E c \in Ids : ToggleDefeated(c)
    \/ UnsetFlag
    \/ SetFlag
    \/ HandleIniPassTurn
    \/ StartCombatUpdate
    \/ NextRoundGate
    \/ ResetAllTurn
    \/ HandleNextRoundRoll
    \/ RollInitiativeLate
    \/ RollInitiativeTop
    \/ RollAllTop
    \/ HandleNextRoundTurn

Spec == Init /\ [][Next]_vars

\* ---------------------------------------------------------- comparator runs
CmpScores == {Null, NaN} \cup {Num(n) : n \in 0..MaxCmpScore}
CmpCombatants ==
    [initiative : CmpScores, edge : 1..MaxAttr, reaction : 1..MaxAttr, intuition : 1..MaxAttr]

InitCmp ==
    /\ round = 0
    /\ passFlag = NoFlag
    /\ turn = 0
    /\ initiative = [c \in Ids |-> Null]
    /\ defeated = [c \in Ids |-> FALSE]
    /\ actors = Tied
    /\ turns = Combatants
    /\ skipDefeated = TRUE
    /\ onlyNPC = FALSE
    /\ socket = EmptyBag
    /\ op = Rest
    /\ cmp \in [left : CmpCombatants, right : CmpCombatants, out : {0}, back : {0},
                done : {FALSE}]
    /\ instances = 1
    /\ trace = Quiet
    /\ scan = ScanIdle

\* sortByRERIC(left, right) and sortByRERIC(right, left), each with fresh coins
Compare ==
    /\ ~cmp.done
    /\ \E a, b, c, d \in Coins :
          cmp' = [cmp EXCEPT !.out = sortByRERIC(cmp.left, cmp.right, a, b),
                             !.back = sortByRERIC(cmp.right, cmp.left, c, d),
                             !.done = TRUE]
    /\ UNCHANGED <<round, passFlag, turn, initiative, defeated, actors, turns,
                   skipDefeated, onlyNPC, socket, op, instances, trace, scan>>

NextCmp == Compare

SpecCmp == InitCmp /\ [][NextCmp]_vars

\* ---------------------------------------------------------------- relay runs
\* what another program on the player's client may emit on the system socket:
\* a payload without id, with an id that is a number, with the id of no
\* combat, and a request for this combat in its current pass or round
Foreign ==
    UNION {{Payload(t, FALSE, "undefined", "-", "p1", 0),
            Payload(t, TRUE, "number", "7", "p1", 0),
            Payload(t, TRUE, "string", "gone", "p1", 0),
            Message(t, "p1", IF t = "DoNextRound" THEN round ELSE initiativePass)}
           : t \in {"DoNextRound", "DoInitPass"}}

Inject(m) ==
    /\ op.pc = "done"
    /\ BagCardinality(socket) < MaxForeign
    /\ emit(m)
    /\ NoWrite /\ UNCHANGED op /\ Frame

\* a started combat in its first or second pass, any scores, one or more
\* SR5Combat instances constructed on each client
InitRelay ==
    /\ round = INITIAL_INI_ROUND
    /\ passFlag \in INITIAL_INI_PASS..(INITIAL_INI_PASS + 1)
    /\ turn \in 0..(Len(Combatants) - 1)
    /\ initiative \in [Ids -> {Num(n) : n \in 0..MaxScore}]
    /\ defeated = [c \in Ids |-> FALSE]
    /\ actors = Tied
    /\ skipDefeated = TRUE
    /\ onlyNPC \in BOOLEAN
    /\ turns \in setupTurns(initiative, actors)
    /\ socket = EmptyBag
    /\ op = Rest
    /\ cmp = CmpIdle
    /\ instances \in 1..MaxInstances
    /\ trace = Quiet
    /\ scan = ScanIdle

NextRelay ==
    \/ \E u \in Users : NextTurn(u)
    \/ \E m \in Foreign : Inject(m)
    \/ \E m \in BagToSet(socket) : \E u \in Users : \E k \in 1..instances :
          Deliver(m, u, k)
    \/ \E m \in BagToSet(socket) : Drop(m)
    \/ UnsetFlag
    \/ SetFlag
    \/ HandleIniPassTurn
    \/ NextRoundGate
    \/ ResetAllTurn
    \/ HandleNextRoundRoll
    \/ RollInitiativeLate
    \/ RollInitiativeTop
    \/ RollAllTop
    \/ HandleNextRoundTurn

SpecRelay == InitRelay /\ [][NextRelay]_vars

\* ------------------------------------------------------------- position runs
ScanScores == {Null} \cup {Num(n) : n \in (0 - 1)..MaxScanScore}
ScanEntries == [defeated : BOOLEAN, initiative : ScanScores]
\* the lists of up to MaxEntries combatants, with a turn inside the list
ScanInputs ==
    UNION {[entries : [1..len -> ScanEntries], turn : 0..(len - 1), undefeated : {0},
            viable : {[threw |-> FALSE, n |-> 0]}, done : {FALSE}]
           : len \in 1..MaxEntries}

\* either a list for the getters, or a started combat about to take a turn
InitPos ==
    /\ actors = Tied
    /\ socket = EmptyBag
    /\ op = Rest
    /\ cmp = CmpIdle
    /\ instances = 1
    /\ trace = Quiet
    /\ onlyNPC = FALSE
    /\ \/ /\ scan \in ScanInputs
          /\ round = 0
          /\ passFlag = NoFlag
          /\ turn = 0
          /\ initiative = [c \in Ids |-> Null]
          /\ defeated = [c \in Ids |-> FALSE]
          /\ skipDefeated = TRUE
       \/ /\ scan = ScanIdle
          /\ round = INITIAL_INI_ROUND
          /\ passFlag \in INITIAL_INI_PASS..(INITIAL_INI_PASS + 1)
          /\ turn \in 0..(Len(Combatants) - 1)
          /\ initiative \in [Ids -> {Null} \cup {Num(n) : n \in 0..MaxScore}]
          /\ defeated \in [Ids -> BOOLEAN]
          /\ skipDefeated \in BOOLEAN
    /\ turns \in setupTurns(initiative, actors)

\* both getters on the list of the run
Scan ==
    /\ ~scan.done
    /\ scan.entries # <<>>
    /\ scan' = [scan EXCEPT !.undefeated = undefeatedTurnPosition(scan.entries, scan.turn),
                            !.viable = viableTurnPosition(scan.entries, scan.turn),
                            !.done = TRUE]
    /\ UNCHANGED <<round, passFlag, turn, initiative, defeated, actors, turns,
                   skipDefeated, onlyNPC, socket, op, cmp, instances, trace>>

\* nextTurn() when it steps from one combatant to the next
StepTurn(u) ==
    /\ nextTurnBranch(u) = "step"
    /\ NextTurn(u)

NextPos ==
    \/ Scan
    \/ \E u \in Users : StepTurn(u)

SpecPos == InitPos /\ [][NextPos]_vars

\* ----------------------------------------------------------- adjustment runs
\* a combat, started or not, with any scores, at rest
InitAdjust ==
    /\ \/ round = 0 /\ passFlag = NoFlag
       \/ round = INITIAL_INI_ROUND /\ passFlag \in INITIAL_INI_PASS..(INITIAL_INI_PASS + 1)
    /\ turn \in 0..(Len(Combatants) - 1)
    /\ initiative \in [Ids -> {Null} \cup {Num(n) : n \in 0..MaxScore}]
    /\ defeated \in [Ids -> BOOLEAN]
    /\ actors = Tied
    /\ skipDefeated \in BOOLEAN
    /\ onlyNPC = FALSE
    /\ turns \in setupTurns(initiative, actors)
    /\ socket = EmptyBag
    /\ op = Rest
    /\ cmp = CmpIdle
    /\ instances = 1
    /\ trace = Quiet
    /\ scan = ScanIdle

NextAdjust ==
    \E u \in Users : \E who \in Ids \cup {"nobody"} : \E d \in Deltas :
        AdjustInitiative(u, who, d)

SpecAdjust == InitAdjust /\ [][NextAdjust]_vars

\* ------------------------------------------------------------------ claims
Sign(n) == IF n > 0 THEN 1 ELSE IF n < 0 THEN -1 ELSE 0

\* the turn sequence is exhausted for nextTurn()
exhausted == ~nextTurnPosition.threw /\ nextTurnPosition.n >= Len(turns)

\* canAdvancePass over the current scores
canAdvancePass == iniOrderCanDoAnotherPass([c \in Ids |-> Number(initiative[c]).v])

\* the AdvancePass message of user u for this encounter
AdvancePassOf(u) ==
    [type |-> "DoInitPass", hasId |-> TRUE, idType |-> "string", id |-> ThisId,
     from |-> u, sentFor |-> initiativePass, heard |-> {}]

\* C1: a non-GM nextTurn() in an Active state with the turn sequence exhausted
\* and a pass advance due writes nothing (round, pass, turn, scores, and the
\* rest of the document unchanged) and puts exactly one AdvancePass message
\* with this encounter's id on the socket.
C1_PlayerPassRequestOnlyEmits ==
    [][\A u \in Users :
          (~isGM(u) /\ round >= 1 /\ passDue /\ NextTurn(u))
          => /\ UNCHANGED <<round, passFlag, turn, initiative, defeated, turns>>
             /\ socket' = socket (+) SetToBag({AdvancePassOf(u)})
             /\ BagCardinality(socket') = BagCardinality(socket) + 1]_vars

C1_Witness ==
    /\ op.pc = "done"
    /\ round >= 1
    /\ passDue
    /\ \E m \in BagToSet(socket) :
          m.type = "DoInitPass" /\ ~isGM(m.from) /\ m.id = ThisId /\ m.sentFor = initiativePass

\* C2: a duplicate AdvancePass message (delivered to the GM after the pass it
\* was sent in has already been advanced) is a no-op: pass number, turn
\* pointer and scores stay as the first delivery left them.
C2_DuplicateIniPassIsNoOp ==
    [][(op'.name = "socket" /\ op'.branch = "DoInitPass" /\ op'.stale /\ isGM(op'.by)
        /\ op' # op /\ round >= 1)
       => UNCHANGED <<passFlag, turn, initiative>>]_vars

\* C3: a non-GM nextTurn() that finds a round advance due sends AdvanceRound
\* and writes neither round, pass, turn nor scores itself.
C3_PlayerRoundRequestWritesNothing ==
    [][\A u \in Users :
          /\ (~isGM(u) /\ round >= 1 /\ exhausted /\ ~canAdvancePass /\ NextTurn(u))
                => UNCHANGED store
          /\ (op.name = "nextTurn" /\ op.branch = "nextRound" /\ op.by = u /\ ~isGM(u)
              /\ round >= 2 /\ op' # op)
                => UNCHANGED store]_vars

\* a step of user u: a call of the public API, a message handled on u's
\* client, or the next await of u's running operation
StepBy(u) ==
    \/ NextTurn(u)
    \/ NextRound(u)
    \/ StartCombat(u)
    \/ \E ids \in (SUBSET Ids) \ {{}} : RollInitiative(u, ids)
    \/ \E who \in Ids, d \in Deltas : AdjustInitiative(u, who, d)
    \/ \E m \in BagToSet(socket) : \E k \in 1..instances : Deliver(m, u, k)
    \/ (op.pc # "done" /\ op.by = u /\ op' # op)

\* C4: single writer: every write of round, pass, turn or a score is done by
\* a GM; the steps of a non-GM leave them unchanged.
C4_SingleWriter ==
    [][\A u \in Users : (~isGM(u) /\ StepBy(u)) => UNCHANGED store]_vars

\* C5: a stale or duplicate AdvanceRound message (delivered when the round it
\* was sent for is not the current round any more) is a no-op for the GM's
\* handler: scores are not reset or rolled again and the turn is not changed.
C5_StaleNextRoundIsNoOp ==
    [][(op'.name = "socket" /\ op'.branch = "DoNextRound" /\ op'.stale /\ isGM(op'.by)
        /\ op' # op /\ round >= 1)
       => UNCHANGED <<turn, initiative>>]_vars

\* C6: no partial commit is observable in a started combat: whenever the
\* decayed scores of a pass advance are in the store, so are its new pass
\* number and turn 0; while a
\* pass number is being set the accessor reads the old or the new one, never
\* a third value; and whenever the round of a round advance is in the store,
\* so is its reset pass.
C6_NoPartialCommit ==
    round >= 1 =>
        /\ (op.pc \in {"unsetFlag", "setFlag"} /\ op.ret = "hip_turn")
              => (initiativePass = op.pass /\ turn = 0)
        /\ op.pc = "hip_turn" => turn = 0
        /\ (op.pc = "setFlag" /\ op.ret = "hip_turn")
              => initiativePass \in {op.pass - 1, op.pass}
        /\ (op.pc \in {"unsetFlag", "setFlag"} /\ op.ret = "nr_gate")
              => initiativePass = INITIAL_INI_PASS

\* a pass advance was asked for by this step of nextTurn()
PassAdvanceRequested(u) ==
    IF isGM(u)
    THEN op'.pc = "unsetFlag" /\ op'.ret = "hip_turn" /\ round' = round /\ socket' = socket
    ELSE socket' = socket (+) SetToBag({AdvancePassOf(u)}) /\ op' = Rest /\ round' = round

\* a round advance was begun by this step of nextTurn()
RoundAdvanceRequested(u) ==
    op'.pc = "unsetFlag" /\ op'.ret = "nr_gate" /\ round' = round + 1 /\ socket' = socket

\* no AdvancePass message is added by the step
NoPassMessageAdded ==
    \A m \in BagToSet(socket') :
        m.type = "DoInitPass" => CopiesIn(m, socket') <= CopiesIn(m, socket)

\* C7: with the turn sequence exhausted, nextTurn() asks for a pass advance
\* iff canAdvancePass holds of the current scores and for a round advance
\* otherwise, never for both: a call on the pass path never reaches the round
\* path, and a call on the round path neither decays scores nor sends an
\* AdvancePass message.
C7_PassIffCanAdvance ==
    /\ [][\A u \in Users :
             (exhausted /\ NextTurn(u))
             => IF canAdvancePass
                THEN PassAdvanceRequested(u) /\ ~RoundAdvanceRequested(u)
                ELSE RoundAdvanceRequested(u) /\ ~PassAdvanceRequested(u)]_vars
    /\ [][(op.name = "nextTurn" /\ op.branch = "nextRound" /\ op' # op)
             => (NoPassMessageAdded /\ op'.pc # "hip_turn" /\ op'.ret # "hip_turn")]_vars
    /\ [][(op.name = "nextTurn" /\ op.branch = "handlePass" /\ op' # op)
             => (socket' = socket /\ round' = round
                 /\ op'.pc \in {"setFlag", "hip_turn", "done"})]_vars

C7_Witness ==
    /\ op.name = "nextTurn"
    /\ op.branch = "nextRound"
    /\ op.pc = "unsetFlag"
    /\ skipDefeated
    /\ round >= 2
    /\ \A c \in Ids : reduceIniResultAfterPass(Number(initiative[c]).v) <= 0

\* who a roll at the start of a combat or of a round is for
AutoRolled == IF onlyNPC THEN NPCs ELSE Ids

\* C8: startCombat() from the not-started state ends with the initial round,
\* the initial pass, turn 0, and an initiative roll of all combatants (of the
\* NPCs only with the auto-roll-only-NPC setting): none of them is left
\* without a score.
C8_StartCombatRolls ==
    [][(op.name = "startCombat" /\ op.pc = "sc_update" /\ op'.pc = "done")
       => /\ round' = INITIAL_INI_ROUND
          /\ initiativePass' = INITIAL_INI_PASS
          /\ turn' = 0
          /\ \A c \in AutoRolled : initiative'[c] # Null]_vars

\* C9: nextTurn() while the combat is not started (round 0) performs
\* startCombat(): it enters startCombat, sends no request, and no nextTurn()
\* begun at round 0 runs anything but startCombat.
C9_NextTurnStartsCombat ==
    [][\A u \in Users :
          (round = 0 /\ NextTurn(u))
          => /\ op'.name = "nextTurn" /\ op'.branch = "start"
             /\ op'.ret = "sc_update"
             /\ socket' = socket]_vars

\* the first key of (score, edge, reaction, intuition) on which left and
\* right differ decides: -1 when left sorts first, 1 when right does, 0 when
\* they differ on none; a score that is not a number sorts after a number
Expected(left, right) ==
    LET l == Number(left.initiative)
        r == Number(right.initiative)
    IN IF isNaN(l) /\ ~isNaN(r) THEN 1
       ELSE IF ~isNaN(l) /\ isNaN(r) THEN -1
       ELSE IF ~isNaN(l) /\ l.v # r.v THEN (IF l.v > r.v THEN -1 ELSE 1)
       ELSE Sign(firstDiff(<<left.edge, left.reaction, left.intuition>>,
                           <<right.edge, right.reaction, right.intuition>>, 1))

\* C10: for a pair that differs on score, edge, reaction or intuition,
\* sortByRERIC decides by the first differing key, higher first, a
\* non-number score last, whatever the coins show, and the two directions
\* of the comparison have opposite signs.
C10_ComparatorOrdersByKeys ==
    (cmp.done /\ Expected(cmp.left, cmp.right) # 0)
       => /\ Sign(cmp.out) = Expected(cmp.left, cmp.right)
          /\ Sign(cmp.back) = 0 - Sign(cmp.out)

\* The same for the pairs in which at most one score is not a number
ComparatorOrdersNumbers ==
    (cmp.done /\ Expected(cmp.left, cmp.right) # 0
     /\ ~(isNaN(cmp.left.initiative) /\ isNaN(cmp.right.initiative)))
       => /\ Sign(cmp.out) = Expected(cmp.left, cmp.right)
          /\ Sign(cmp.back) = 0 - Sign(cmp.out)

\* decayOnPass applied n times
RECURSIVE decayTimes(_, _)
decayTimes(score, n) ==
    IF n <= 0 THEN score ELSE decayTimes(reduceIniResultAfterPass(score), n - 1)

\* C11: rollInitiative(ids) called while the pass is beyond the initial pass
\* leaves every named combatant with its fresh roll reduced by the decay of
\* the passes already elapsed, leaves the scores of the others as they were,
\* and leaves the turn where it was.
C11_LateRollIsDecayed ==
    /\ [][(initiativePass > INITIAL_INI_PASS /\ op.pc = "done"
           /\ op'.name = "rollInitiative")
             => /\ \A c \in op'.ids : initiative'[c] \in {Num(r) : r \in 1..MaxRoll}
                /\ \A c \in Ids \ op'.ids : initiative'[c] = initiative[c]
                /\ UNCHANGED <<round, passFlag, turn>>
                /\ op'.pc = "ri_late" /\ op'.caller = "api"]_vars
    /\ [][(op.pc = "ri_late" /\ op.caller = "api" /\ initiativePass > INITIAL_INI_PASS
           /\ op' # op)
             => /\ \A c \in op.ids :
                      initiative'[c] =
                         Num(decayTimes(initiative[c].v, initiativePass - INITIAL_INI_PASS))
                /\ \A c \in Ids \ op.ids : initiative'[c] = initiative[c]
                /\ UNCHANGED <<round, passFlag, turn>>
                /\ op'.pc = "ri_top"]_vars
    /\ [][(op.pc = "ri_top" /\ op.caller = "api" /\ initiativePass > INITIAL_INI_PASS
           /\ op' # op)
             => (UNCHANGED store /\ op' = Rest)]_vars

C11_Witness ==
    /\ op.pc = "ri_top"
    /\ op.caller = "api"
    /\ initiativePass = INITIAL_INI_PASS + 2
    /\ turn > 0
    /\ \E c \in op.ids : initiative[c] = Num(0)
    /\ \E c \in Ids \ op.ids : GT0(initiative[c])

\* the payload of m has no id, or an id that is not a string
malformed(m) == ~m.hasId \/ m.idType # "string"

\* C12: a relay message whose payload has no id, or an id that is not a
\* string, is dropped by the listener: an error is logged, no handler is
\* called, and round, pass, turn and scores stay as they are.
C12_MalformedPayloadDropped ==
    [][\A m \in BagToSet(socket) : \A u \in Users : \A k \in 1..instances :
          (malformed(m) /\ Deliver(m, u, k))
          => /\ trace' = Logged("payload")
             /\ UNCHANGED store
             /\ UNCHANGED op]_vars

\* the same for the payloads without an id
MissingIdDropped ==
    [][\A m \in BagToSet(socket) : \A u \in Users : \A k \in 1..instances :
          (~m.hasId /\ Deliver(m, u, k))
          => /\ trace' = Logged("payload")
             /\ UNCHANGED store
             /\ UNCHANGED op]_vars

\* C13: every reachable state is NotStarted, with round 0 and the accessor
\* reading pass 0, or Active, with round >= 1, pass >= 1 and, when there are
\* turns, a turn that is an index into them.
C13_StateInvariant ==
    \/ (round = 0 /\ initiativePass = 0)
    \/ /\ round >= 1
       /\ initiativePass >= 1
       /\ Len(turns) > 0 => turn \in 0..(Len(turns) - 1)

\* the part of it about started combats
ActiveInvariant ==
    round >= 1 =>
        /\ initiativePass >= 1
        /\ Len(turns) > 0 => turn \in 0..(Len(turns) - 1)

\* the entry at position n (0-based) is not defeated and has a positive score
acts(entries, n) ==
    /\ ~entries[n + 1].defeated
    /\ entries[n + 1].initiative.k = "num"
    /\ entries[n + 1].initiative.v > 0

\* r is the smallest position after t whose entry acts, or the length of the
\* list when there is none
IsFirstUndefeated(entries, t, r) ==
    /\ r \in (t + 1)..Len(entries)
    /\ r < Len(entries) => acts(entries, r)
    /\ \A n \in (t + 1)..(r - 1) : ~acts(entries, n)

\* C14: in skip-defeated mode the index nextTurn() computes is the smallest
\* index after the turn whose combatant is not defeated and has a positive
\* score, or the length of the turn sequence; nextTurn() steps exactly when
\* that index is inside the sequence, and the step commits the turn only.
C14_SkipDefeatedStep ==
    /\ [](scan.done => IsFirstUndefeated(scan.entries, scan.turn, scan.undefeated))
    /\ [](skipDefeated =>
             /\ IsFirstUndefeated(turnEntries, turn, nextTurnPosition.n)
             /\ \A u \in Users :
                   nextTurnBranch(u) = "step" <=> nextTurnPosition.n < Len(turns))
    /\ [][\A u \in Users :
             (skipDefeated /\ StepTurn(u))
             => /\ IsFirstUndefeated(turnEntries, turn, turn')
                /\ turn' < Len(turns)
                /\ UNCHANGED <<round, passFlag, initiative, defeated, socket>>
                /\ op' = Rest]_vars

C14_Witness ==
    /\ scan.done
    /\ Len(scan.entries) = 3
    /\ scan.turn = 0
    /\ scan.entries[2].defeated /\ GT0(scan.entries[2].initiative)
    /\ ~scan.entries[3].defeated /\ GT0(scan.entries[3].initiative)
    /\ scan.undefeated = 2

\* the first position from t + 1 to the end of the list whose entry has a
\* positive score, or 0 when there is none
firstViable(entries, t) ==
    LET viable == {n \in (t + 1)..(Len(entries) - 1) :
                      entries[n + 1].initiative.k = "num" /\ entries[n + 1].initiative.v > 0}
    IN IF viable # {} THEN Min(viable) ELSE 0

\* C15: in non-skip mode the index nextTurn() computes is the first position
\* from turn + 1 on whose combatant has a positive score, or 0 when there is
\* none up to the end of the list; the computation ends with an index inside
\* the list and reads no position past its end.
C15_ViableIsNextPositive ==
    scan.done =>
        /\ ~scan.viable.threw
        /\ scan.viable.n = firstViable(scan.entries, scan.turn)
        /\ scan.viable.n \in 0..(Len(scan.entries) - 1)

\* handleIniPass starts on this encounter in this step
IniPassBegins == op.pc = "done" /\ op'.pc = "unsetFlag" /\ op'.ret = "hip_turn"

\* C16: one application of handleIniPass on this encounter replaces every
\* score by its decay, raises the pass by exactly one, sets the turn to 0 and
\* leaves the round and the combatants as they are: its first write is the
\* decayed scores, the following ones set the pass read at its start plus
\* one and then turn 0, and none of them touches anything else.  On the id of
\* no encounter it changes nothing.
C16_AdvancePassOnce ==
    /\ [][IniPassBegins
             => /\ initiative' =
                      [c \in Ids |-> Num(reduceIniResultAfterPass(Number(initiative[c]).v))]
                /\ op'.pass = initiativePass + 1
                /\ UNCHANGED <<round, passFlag, turn, defeated>>]_vars
    /\ [][(op.ret = "hip_turn" /\ op.pc = "unsetFlag" /\ op' # op)
             => /\ op'.pc = "setFlag" /\ op'.pass = op.pass /\ op'.ret = "hip_turn"
                /\ UNCHANGED <<round, turn, initiative, defeated>>]_vars
    /\ [][(op.ret = "hip_turn" /\ op.pc = "setFlag" /\ op' # op)
             => /\ initiativePass' = op.pass
                /\ op'.pc = "hip_turn"
                /\ UNCHANGED <<round, turn, initiative, defeated>>]_vars
    /\ [][(op.pc = "hip_turn" /\ op' # op)
             => /\ turn' = 0
                /\ op' = Rest
                /\ UNCHANGED <<round, passFlag, initiative, defeated>>]_vars
    /\ [][\A m \in BagToSet(socket) : \A u \in Users : \A k \in 1..instances :
             (m.type = "DoInitPass" /\ m.hasId /\ m.id # ThisId /\ Deliver(m, u, k))
             => /\ trace' = Called("handleIniPass")
                /\ UNCHANGED store
                /\ UNCHANGED <<op, defeated>>]_vars

C16_Witness ==
    /\ op.name = "socket"
    /\ op.branch = "DoInitPass"
    /\ op.pc = "hip_turn"
    /\ initiativePass = INITIAL_INI_PASS + 1
    /\ turn > 0
    /\ \E c \in Ids : initiative[c] = Num(MaxScore - DecayStep)

\* the operation o is a round advance the GM began (nextRound(), called
\* directly or by nextTurn())
GMRoundAdvance(o) ==
    /\ isGM(o.by)
    /\ o.name = "nextRound" \/ (o.name = "nextTurn" /\ o.branch = "nextRound")

FreshRolls == {Num(r) : r \in 1..MaxRoll}

\* C17: a round advance by the GM raises the round by one, sets the pass to
\* the initial pass and the turn to 0, and rolls the score of every combatant
\* anew (of the NPCs only with the auto-roll-only-NPC setting, the others
\* staying reset), with no late-spawn reduction of the rolls and no request
\* sent.
C17_RoundAdvanceByGM ==
    /\ [][(op.pc = "done" /\ GMRoundAdvance(op'))
             => /\ round' = round + 1
                /\ op'.pc = "unsetFlag" /\ op'.pass = INITIAL_INI_PASS
                /\ UNCHANGED <<initiative, socket>>]_vars
    /\ [][(GMRoundAdvance(op) /\ op' # op)
             => /\ round' = round
                /\ socket' = socket
                /\ op.pc = "nr_gate" =>
                      (initiativePass = INITIAL_INI_PASS
                       /\ initiative' = [c \in Ids |-> Null])
                /\ op.pc \in {"hnr_resetTurn", "ri_late", "ra_top", "hnr_turn"} =>
                      (UNCHANGED <<passFlag, initiative>> /\ turn' = 0)
                /\ op.pc = "hnr_roll" =>
                      (/\ \A c \in AutoRolled : initiative'[c] \in FreshRolls
                       /\ \A c \in Ids \ AutoRolled : initiative'[c] = Null
                       /\ UNCHANGED passFlag)
                /\ op.pc = "ri_late" => op'.pc # "ri_top"
                /\ op.pc = "hnr_turn" =>
                      (/\ op' = Rest
                       /\ initiativePass' = INITIAL_INI_PASS
                       /\ \A c \in AutoRolled : initiative'[c] \in FreshRolls)]_vars

C17_Witness ==
    /\ GMRoundAdvance(op)
    /\ op.pc = "hnr_turn"
    /\ round = INITIAL_INI_ROUND + 1
    /\ initiativePass = INITIAL_INI_PASS
    /\ turn = 0
    /\ onlyNPC
    /\ \A c \in NPCs : initiative[c] \in FreshRolls

\* C18: rollInitiative(ids) sets the turn to 0 exactly when the pass is the
\* initial pass, and then leaves the rolled scores without a late-spawn
\* reduction; with a later pass it leaves the turn where it was.
C18_RollResetsTurnAtInitialPass ==
    /\ [][(op.pc = "done" /\ op'.pc = "ri_late") => turn' = turn]_vars
    /\ [][(op.pc = "ri_late" /\ op' # op)
             => IF initiativePass = INITIAL_INI_PASS
                THEN turn' = 0 /\ UNCHANGED initiative /\ op'.pc # "ri_top"
                ELSE turn' = turn /\ op'.pc = "ri_top"]_vars
    /\ [][(op.pc = "ri_top" /\ op' # op)
             => (initiativePass # INITIAL_INI_PASS /\ turn' = turn)]_vars

C18_Witness ==
    /\ op.pc = "ri_late"
    /\ op.caller = "api"
    /\ round >= INITIAL_INI_ROUND
    /\ initiativePass = INITIAL_INI_PASS
    /\ turn > 0

\* C19: adjustInitiative(combatant, delta) changes the score of that
\* combatant to its previous score plus delta and nothing else (round, pass,
\* turn, defeated flags, the other scores, the socket); for an id of no
\* combatant it logs an error and changes nothing.
C19_AdjustChangesOneScore ==
    [][\A u \in Users : \A who \in Ids \cup {"nobody"} : \A d \in Deltas :
          AdjustInitiative(u, who, d)
          => IF who \in Ids
             THEN /\ initiative'[who] = Num(Number(initiative[who]).v + d)
                  /\ \A c \in Ids \ {who} : initiative'[c] = initiative[c]
                  /\ UNCHANGED <<round, passFlag, turn, defeated, socket, op>>
                  /\ trace' = Quiet
             ELSE /\ trace' = Logged("combatant")
                  /\ UNCHANGED <<round, passFlag, turn, initiative, defeated, turns,
                                 socket, op>>]_vars

C19_Witness ==
    /\ trace = Logged("combatant")
    /\ round >= INITIAL_INI_ROUND
    /\ \E c \in Ids : initiative[c] = Num(0 - MaxDebt)
    /\ \E c \in Ids : initiative[c] = Null

\* C20: a relay message causes its transition at most once in the whole
\* system: once a listener has been handed the message, handing it to a
\* further listener (of another SR5Combat instance, or on another client)
\* writes nothing and starts no handler run.
C20_MessageAppliedAtMostOnce ==
    [][\A m \in BagToSet(socket) : \A u \in Users : \A k \in 1..instances :
          (m.heard # {} /\ Deliver(m, u, k))
          => (UNCHANGED store /\ UNCHANGED op)]_vars

\* with one SR5Combat instance on the receiving client no message is handed
\* over twice
OneInstanceHearsOnce ==
    instances = 1 => \A m \in BagToSet(socket) : m.heard = {}

\* ------------------------------------------------------------------- C21
\* a nextTurn, pass advance or round advance completes with this step: the
\* last write of handleIniPass or handleNextRound, or the single write of the
\* plain step of nextTurn (the only step between two idle states that moves
\* the turn)
Completes ==
    /\ op'.pc = "done"
    /\ \/ op.pc \in {"hip_turn", "hnr_turn"}
       \/ op.pc = "done" /\ turn' # turn

\* the scores and attributes after the step leave the sort one order only: no
\* pair is tied down to the coin, which every sort tosses anew
OrderSettled == setupTurns(initiative', actors') = {turns'}

\* after the step some combatant can still act: not defeated, positive score
SomeoneActs == \E c \in Ids : ~defeated'[c] /\ GT0(initiative'[c])

\* after the step the turn points at a combatant that is not defeated and has
\* a positive score
PointerActs ==
    /\ turn' < Len(turns')
    /\ ~defeated'[turns'[turn' + 1]]
    /\ GT0(initiative'[turns'[turn' + 1]])

\* C21: in skip-defeated mode, whenever nextTurn, a pass advance or a round
\* advance completes in a started combat in which some combatant is not
\* defeated and has a positive score, the turn points at a combatant that is
\* not defeated and has a positive score (stated for the states whose order of
\* turns does not hang on a coin)
C21_PointerNeverOnSkipped ==
    [][(skipDefeated /\ round' >= INITIAL_INI_ROUND /\ Completes /\ SomeoneActs
          /\ OrderSettled)
          => PointerActs]_vars

\* the plain step of nextTurn alone: it lands on a combatant that is not
\* defeated and has a positive score
StepLandsOnActing ==
    [][(skipDefeated /\ round' >= INITIAL_INI_ROUND
          /\ op.pc = "done" /\ op'.pc = "done" /\ turn' # turn /\ OrderSettled)
          => PointerActs]_vars

\* ------------------------------------------------------ runs of nextTurn only
\* The GM's client calls nextTurn() again and again in skip-defeated mode;
\* nothing else is called: no roll, no adjustment, no toggle, no message.  The
\* runs start in any started combat below the last round explored, at a pass
\* from which the passes the scores allow stay within MaxPass.
LiveScores == {Null} \cup {Num(n) : n \in (0 - MaxDebt)..MaxScore}

InitLive ==
    /\ round \in INITIAL_INI_ROUND..(MaxRound - 1)
    /\ passFlag \in INITIAL_INI_PASS..(MaxPass - MaxScore + 1)
    /\ turn \in 0..(Len(Combatants) - 1)
    /\ initiative \in [Ids -> LiveScores]
    /\ defeated \in [Ids -> BOOLEAN]
    /\ actors \in {Tied, Ranked}
    /\ skipDefeated = TRUE
    /\ onlyNPC \in BOOLEAN
    /\ turns \in setupTurns(initiative, actors)
    /\ socket = EmptyBag
    /\ op = Rest
    /\ cmp = CmpIdle
    /\ instances = 1
    /\ trace = Quiet
    /\ scan = ScanIdle

\* nextTurn() of the GM and the awaited steps it runs through; after the
\* round advance the pass is the initial one, so rollInitiative never takes
\* the late-spawn path here
NextLive ==
    \/ NextTurn("gm")
    \/ UnsetFlag
    \/ SetFlag
    \/ HandleIniPassTurn
    \/ NextRoundGate
    \/ ResetAllTurn
    \/ HandleNextRoundRoll
    \/ RollInitiativeLate
    \/ RollAllTop
    \/ HandleNextRoundTurn

\* the caller keeps calling and every awaited write completes
SpecLive == InitLive /\ [][NextLive]_vars /\ WF_vars(NextLive)

\* ------------------------------------------------------------------- C22
\* C22: when the GM keeps calling nextTurn() in skip-defeated mode and nothing
\* rolls or adjusts a score in between, every round below the last round
\* explored is left after finitely many calls: the round number increases
C22_RoundEventuallyAdvances ==
    \A r \in INITIAL_INI_ROUND..(MaxRound - 1) : (round = r) ~> (round > r)

\* nextTurn() has just raised the round at the end of a pass after the first:
\* the flag still shows the pass the previous round ended in
C22_Witness ==
    /\ round > INITIAL_INI_ROUND
    /\ op.name = "nextTurn" /\ op.pc = "unsetFlag" /\ op.ret = "nr_gate"
    /\ passFlag > INITIAL_INI_PASS

\* in these runs no call of nextTurn() is held back by MaxPass
NeverCapped ==
    (op.pc = "done" /\ round < MaxRound /\ nextTurnBranch("gm") = "handlePass")
        => initiativePass < MaxPass
====
